---------------------------- MODULE Spec2Model ----------------------------
(***************************************************************************)
(* PixelFirm: manifest resolution (load_manifest), device lookup and the   *)
(* resumable download (download_url) of src/pixelfirm/downloader.py, and   *)
(* the manifest updater of src/pixelfirm/manifest_utils.py and             *)
(* src/scripts/update_manifest.py.                                         *)
(*                                                                         *)
(* Files are modelled as on a POSIX file system: a path names a file       *)
(* object (inode), a rename moves the name and replaces the target, an     *)
(* open file handle stays with its file object.  A file's content is the   *)
(* sequence of its bytes.                                                  *)
(***************************************************************************)
EXTENDS Integers, Sequences, FiniteSets, TLC

(* ------------------------------ bounds -------------------------------- *)

\* Length of the firmware resource served by the firmware source.
ResLen == 3
\* Longest temporary file left over from an unrelated earlier transfer.
MaxStale == 4
\* Longest temporary file on which the caller still begins a call.
MaxFile == 4
\* Most bytes one chunk of the response stream carries in the model.
ChunkMax == 2
\* Number of file objects of the file system.
NInodes == 3
\* Number of callers (threads or processes using the library).
NCallers == 2
\* Last second the clock reaches.
MaxClock == 1
\* Most updates of the manifest in a run.
MaxUpdates == 3

(* ------------------------------ data ---------------------------------- *)

\* The resource: bytes 1, 2, ..., ResLen (pairwise different, so that a
\* repeated or missing range shows).
Resource == [i \in 1..ResLen |-> i]

\* A byte that does not occur in the resource.
StaleByte == 0

Callers == 1..NCallers
\* The single thread of the synchronous program.
Main == 1

Inodes == 1..NInodes
NoInode == 0

\* A URL is held as the sequence of its "/"-separated pieces.
Url1 == <<"host", "fw.zip">>
Url2 == <<"mirror", "fw.zip">>
Urls == {Url1, Url2}
NoUrl == <<>>

Devices == {"c", "d"}
Codenames == Devices \cup {"unknown"}

\* Manifest entries: {url, version}.
Entries == {[url |-> Url1, version |-> "1.0"], [url |-> Url2, version |-> "2.0"]}

\* Manifests: mappings from some device ids to entries.
Manifests == UNION {[S -> Entries] : S \in SUBSET Devices}
EmptyManifest == [d \in {} |-> [url |-> Url1, version |-> "1.0"]]
NoEntry == [url |-> NoUrl, version |-> ""]

\* Text of a JSON document: a well-formed document holding a mapping, or
\* text that is no JSON document (an empty file is one such text).
JsonText(m) == [kind |-> "json", val |-> m]
GarbageText == [kind |-> "garbage", val |-> EmptyManifest]
EmptyText == [kind |-> "empty", val |-> EmptyManifest]
Texts == {JsonText(m) : m \in Manifests} \cup {GarbageText, EmptyText}

\* json.dumps of a mapping.
json_dumps(m) == JsonText(m)

\* json.loads / Response.json: the mapping of a well-formed document,
\* JSONDecodeError otherwise.
json_loads(t) ==
  IF t.kind = "json" THEN [ok |-> TRUE, val |-> t.val]
  ELSE [ok |-> FALSE, val |-> EmptyManifest]

\* Content-Length header values: a number, or one of these two.
ClMissing == -1
ClGarbage == -2
\* total = None of the progress bar.
NoTotal == -1

\* File names and paths of the output directory: dest, and dest with the
\* suffix ".part" added.
Names == {u[i] : u \in Urls, i \in 1..2}
Paths == [name : Names, part : BOOLEAN]
DestPath(name) == [name |-> name, part |-> FALSE]

\* dest.with_suffix(dest.suffix + ".part")
TempPath(dest) == [name |-> dest.name, part |-> TRUE]

\* The destination the direct download_url calls of the model use.
FwName == "fw.zip"
Dest == DestPath(FwName)
Temp == TempPath(Dest)

Prefix(s, k) == SubSeq(s, 1, k)
Suffix(s, k) == SubSeq(s, k + 1, Len(s))
Min(a, b) == IF a <= b THEN a ELSE b

VARIABLES
  paths,         \* file system: path -> file object (NoInode: no such file)
  inodes,        \* file object -> content
  dirExists,     \* whether dest.parent exists
  manifestFile,  \* LOCAL_MANIFEST: [exists, text]
  call,          \* per caller: position in download_url and its locals
  ret,           \* what the last finished call returned or raised
  manifestDirExists,  \* whether the directory of the manifest file exists
  backups,       \* the backup files of the manifest: stamp -> [exists, text]
  clock,         \* int(time.time())
  upd            \* the manifest updater: its position, locals and result

vars == <<paths, inodes, dirExists, manifestFile, call, ret,
          manifestDirExists, backups, clock, upd>>

\* What the downloader works on, and what only the updater changes.
downloadVars == <<paths, inodes, dirExists, call, ret>>
updaterVars == <<manifestDirExists, backups, clock, upd>>

(* --------------------------- file system ------------------------------ *)

\* Path.exists()
Exists(p) == paths[p] # NoInode

\* The bytes of the file at p (no bytes when there is no file).
Content(p) == IF Exists(p) THEN inodes[paths[p]] ELSE <<>>

\* Path.stat() of a path that names no file raises FileNotFoundError.
StatFails == -1

\* Path.stat().st_size
StatSize(p) == IF Exists(p) THEN Len(Content(p)) ELSE StatFails

\* A file as a claim observes it: whether it exists, and its bytes.
FileAt(p) == [exists |-> Exists(p), data |-> Content(p)]
NoFile == [exists |-> FALSE, data |-> <<>>]
FileOf(data) == [exists |-> TRUE, data |-> data]

\* File objects that a path names or a caller holds open.
UsedInodes(ps, cl) ==
  {ps[p] : p \in Paths} \cup {cl[c].fh : c \in Callers}

\* A file object nothing refers to holds nothing.
Collect(ino, ps, cl) ==
  [i \in Inodes |-> IF i \in UsedInodes(ps, cl) THEN ino[i] ELSE <<>>]

\* The file object a newly created file gets.
FreshInode ==
  CHOOSE i \in Inodes :
    /\ i \notin UsedInodes(paths, call)
    /\ \A j \in Inodes : j \notin UsedInodes(paths, call) => i <= j

\* Path.rename(target) on POSIX: the name target now names the file of src,
\* replacing any file target named; src names nothing.
RenamedPaths(src, target) ==
  [paths EXCEPT ![target] = paths[src], ![src] = NoInode]

(* ------------------------- firmware source ---------------------------- *)

\* requests' Response.raise_for_status(): HTTPError for 4xx and 5xx.
raise_for_status(status) == 400 <= status /\ status < 600

\* (mutant) 416 is not told from the other statuses.
RangeNotSatisfiableNever(status) == FALSE

\* r.status_code == 416
RangeNotSatisfiable(status) == status = 416

\* Statuses with which the firmware source refuses a request, and a status
\* that is neither a success nor a client or server error.
ErrorStatuses == {404, 503}
OtherStatuses == {300}

\* Content-Length headers a response with the given body may carry.
ContentLengths(body) == {Len(body), ClMissing, ClGarbage}

\* The responses of the firmware source to a GET of the unchanged resource:
\* without a Range header 200 with the whole resource; with Range: bytes=s-
\* either 206 with the bytes from s on (s inside the resource), 416 (s at or
\* past its end), or 200 with the whole resource (a source that ignores
\* Range); at any time an error status, or a 300 that carries no Location
\* header (requests then hands it to the caller as it is), both without body.
ServerResponses(hasRange, start) ==
  {[status |-> 200, body |-> Resource, clen |-> cl] :
      cl \in ContentLengths(Resource)}
  \cup (IF hasRange /\ start < ResLen
        THEN {[status |-> 206, body |-> Suffix(Resource, start), clen |-> cl] :
                cl \in ContentLengths(Suffix(Resource, start))}
        ELSE {})
  \cup (IF hasRange /\ start >= ResLen
        THEN {[status |-> 416, body |-> <<>>, clen |-> ClMissing]}
        ELSE {})
  \cup {[status |-> s, body |-> <<>>, clen |-> ClMissing] :
        s \in ErrorStatuses \cup OtherStatuses}

(* --------------------------- download_url ----------------------------- *)

\* The locals of a caller that runs nothing.
NoRemote == [kind |-> "none", status |-> 0, text |-> EmptyText]
IdleCall ==
  [pc |-> "idle", url |-> NoUrl, dest |-> Dest, resume |-> FALSE,
   existing |-> 0, hasRange |-> FALSE, mode |-> "wb", status |-> 0,
   body |-> <<>>, total |-> NoTotal, n |-> 0, fh |-> NoInode, pos |-> 0,
   buf |-> <<>>, written |-> 0, preTemp |-> NoFile, preDest |-> NoFile,
   op |-> "download_url", codename |-> "", manifest |-> EmptyManifest,
   entry |-> NoEntry, requests |-> 0, manifestRequests |-> 0,
   remote |-> NoRemote]

\* Nothing has returned yet, or a call is under way.
NoRet ==
  [op |-> "none", kind |-> "none", status |-> 0, path |-> Dest,
   manifest |-> EmptyManifest, readLocal |-> FALSE,
   remote |-> NoRemote,
   localFile |-> [exists |-> FALSE, text |-> EmptyText],
   codename |-> "", manifestRequests |-> 0, info |-> IdleCall]

\* What is kept of a call's locals once it has ended: its arguments, what
\* it found and chose before the request, the requests it sent, the status
\* it got and the number of bytes it wrote.
Finished(info) ==
  [info EXCEPT !.pc = "idle", !.body = <<>>, !.total = NoTotal, !.n = 0,
               !.fh = NoInode, !.pos = 0, !.buf = <<>>,
               !.manifest = EmptyManifest, !.remote = NoRemote]

\* download_url returns dest, or raises an exception of the given kind.
DownloadRet(kind, status, info) ==
  [NoRet EXCEPT !.op = info.op, !.kind = kind, !.status = status,
                !.path = info.dest, !.codename = info.codename,
                !.manifestRequests = info.manifestRequests,
                !.info = Finished(info)]

\* existing = temp.stat().st_size if temp.exists() else 0, when no other
\* process touches the file between exists() and stat().
existing_bytes(temp) == IF Exists(temp) THEN StatSize(temp) ELSE 0

\* (mutant) Range is sent whenever resume is set.
UseRangeAlways(resume, existing) == resume

\* if resume and existing > 0
UseRange(resume, existing) == resume /\ existing > 0

\* (mutant) a non-empty temporary file is appended to, whatever resume is.
OpenModeAppending(resume, existing) == IF existing > 0 THEN "ab" ELSE "wb"

\* mode = "wb", or "ab" together with the Range header.
OpenMode(resume, existing) == IF UseRange(resume, existing) THEN "ab" ELSE "wb"

\* existing is known: the Range header and the open mode are chosen and
\* the request is next.
Measured(me, existing) ==
  [me EXCEPT !.pc = "get", !.existing = existing,
             !.hasRange = UseRange(me.resume, existing),
             !.mode = OpenMode(me.resume, existing)]

\* download_url up to temp.exists(): the parent directory is made; when
\* there is no temporary file existing is 0, otherwise temp.stat() is next.
BeginDownload(url, dest, resume) ==
  LET temp == TempPath(dest)
      begun == [IdleCall EXCEPT
                  !.pc = "stat", !.url = url, !.dest = dest, !.resume = resume,
                  !.preTemp = FileAt(temp), !.preDest = FileAt(dest)]
  IN IF Exists(temp) THEN begun ELSE Measured(begun, 0)

\* A caller calls download_url(url, dest, resume).
DownloadCall(c, url, resume) ==
  /\ call[c].pc = "idle"
  /\ call' = [call EXCEPT ![c] = BeginDownload(url, Dest, resume)]
  /\ dirExists' = TRUE
  /\ ret' = NoRet
  /\ UNCHANGED <<paths, inodes, manifestFile, updaterVars>>

\* temp.stat().st_size after temp.exists() was true: the size, or
\* FileNotFoundError when the file has gone in between.
StatTemp(c) ==
  LET me == call[c]
      size == StatSize(TempPath(me.dest))
  IN
  /\ me.pc = "stat"
  /\ IF size # StatFails
     THEN /\ call' = [call EXCEPT ![c] = Measured(me, size)]
          /\ UNCHANGED ret
     ELSE /\ ret' = DownloadRet("FileNotFoundError", 0, me)
          /\ call' = [call EXCEPT ![c] = IdleCall]
  /\ UNCHANGED <<paths, inodes, dirExists, manifestFile, updaterVars>>

\* The one requests.get of download_url has been called.
Requested(me) == [me EXCEPT !.requests = me.requests + 1]

\* (mutant) a request that fails is sent again.
ConnectFailRetrying(c) ==
  /\ call[c].pc = "get"
  /\ call' = [call EXCEPT ![c] = Requested(call[c])]
  /\ UNCHANGED <<paths, inodes, dirExists, manifestFile, updaterVars, ret>>

\* requests.get raises: no connection, or the timeout elapses.
ConnectFail(c) ==
  /\ call[c].pc = "get"
  /\ ret' = DownloadRet("ConnectionError", 0, Requested(call[c]))
  /\ call' = [call EXCEPT ![c] = IdleCall]
  /\ UNCHANGED <<paths, inodes, dirExists, manifestFile, updaterVars>>

\* total of the progress bar from the Content-Length header.
ExpectedTotal(clen, hasRange, existing) ==
  IF clen = ClMissing \/ clen = ClGarbage THEN NoTotal
  ELSE clen + (IF hasRange THEN existing ELSE 0)

\* The response's status line and headers arrive.
\* 416: the temporary file is renamed to dest and dest returned; 4xx, 5xx:
\* HTTPError; otherwise the total is worked out and the body is streamed.
Respond(c, r) ==
  LET me == call[c]
      temp == TempPath(me.dest)
      seen == [Requested(me) EXCEPT !.status = r.status]
  IN
  /\ me.pc = "get"
  /\ r \in ServerResponses(me.hasRange, me.existing)
  /\ IF RangeNotSatisfiable(r.status)
     THEN IF Exists(temp)
          THEN /\ paths' = RenamedPaths(temp, me.dest)
               /\ inodes' = Collect(inodes, paths', [call EXCEPT ![c] = IdleCall])
               /\ ret' = DownloadRet("ok", 0, seen)
               /\ call' = [call EXCEPT ![c] = IdleCall]
          ELSE /\ ret' = DownloadRet("FileNotFoundError", 0, seen)
               /\ call' = [call EXCEPT ![c] = IdleCall]
               /\ UNCHANGED <<paths, inodes>>
     ELSE IF raise_for_status(r.status)
     THEN /\ ret' = DownloadRet("HTTPError", r.status, seen)
          /\ call' = [call EXCEPT ![c] = IdleCall]
          /\ UNCHANGED <<paths, inodes>>
     ELSE /\ call' = [call EXCEPT ![c] =
                 [seen EXCEPT !.pc = "open", !.body = r.body,
                    !.total = ExpectedTotal(r.clen, me.hasRange, me.existing),
                    !.n = me.existing]]
          /\ UNCHANGED <<paths, inodes, ret>>
  /\ UNCHANGED <<dirExists, manifestFile, updaterVars>>

\* (mutant) every open truncates.
OpenedContentTruncated(mode, old) == <<>>

\* The content a file has once it is opened with the given mode: "wb"
\* truncates it, "ab" keeps it.
OpenedContent(mode, old) == IF mode = "wb" THEN <<>> ELSE old

\* (mutant) the body is written to the final path.
OpenedPathFinal(dest) == dest

\* The path download_url opens for writing: temp.
OpenedPath(dest) == TempPath(dest)

\* open(temp, mode): the file is created if there is none.
Open(c) ==
  LET me == call[c]
      temp == OpenedPath(me.dest)
      ino == IF Exists(temp) THEN paths[temp] ELSE FreshInode
  IN
  /\ me.pc = "open"
  /\ paths' = [paths EXCEPT ![temp] = ino]
  /\ inodes' = [inodes EXCEPT ![ino] = OpenedContent(me.mode, Content(temp))]
  /\ call' = [call EXCEPT ![c] =
                [me EXCEPT !.pc = "stream", !.fh = ino, !.pos = 0, !.buf = <<>>]]
  /\ UNCHANGED <<dirExists, manifestFile, updaterVars, ret>>

\* The file after the bytes data have gone from a handle to it: in append
\* mode they are added at the end of the file, otherwise put at the
\* handle's position (a gap left by another writer's truncation reads as
\* StaleByte-filled).
WrittenContent(mode, old, pos, data) ==
  IF data = <<>> THEN old
  ELSE IF mode = "ab" THEN old \o data
  ELSE LET padded == IF Len(old) >= pos THEN old
                     ELSE old \o [i \in 1..(pos - Len(old)) |-> StaleByte]
       IN Prefix(padded, pos) \o data \o Suffix(padded, Min(Len(padded), pos + Len(data)))

\* f.write(chunk) goes to the buffer of the file object open() returned;
\* of the bytes held there and the chunk, the write passes on to the file
\* none (the chunk fits into the buffer), the bytes held (the chunk does
\* not fit, and is held in their place), or all (the chunk is larger than
\* the buffer).
Throughs == {"none", "old", "all"}
PassedOn(buf, chunk, through) ==
  IF through = "all" THEN buf \o chunk
  ELSE IF through = "old" THEN buf ELSE <<>>
Held(buf, chunk, through) ==
  IF through = "all" THEN <<>>
  ELSE IF through = "old" THEN chunk ELSE buf \o chunk

\* One turn of the loop over r.iter_content: an empty chunk is skipped, any
\* other chunk is written and the progress bar advanced.
IterChunk(c, k, through) ==
  LET me == call[c]
      chunk == Prefix(me.body, k)
      passed == PassedOn(me.buf, chunk, through)
  IN
  /\ me.pc = "stream"
  /\ k \in 0..Min(ChunkMax, Len(me.body))
  /\ through \in Throughs
  /\ IF k = 0
     THEN UNCHANGED <<inodes, call>>
     ELSE /\ inodes' = [inodes EXCEPT ![me.fh] =
                          WrittenContent(me.mode, inodes[me.fh], me.pos, passed)]
          /\ call' = [call EXCEPT ![c] =
                        [me EXCEPT !.body = Suffix(me.body, k),
                                   !.pos = me.pos + Len(passed),
                                   !.buf = Held(me.buf, chunk, through),
                                   !.n = me.n + k,
                                   !.written = me.written + k]]
  /\ UNCHANGED <<paths, dirExists, manifestFile, updaterVars, ret>>

\* The file is closed (the with block is left): the bytes held in the
\* buffer go to the file.
ClosedFile(ino, me) ==
  [ino EXCEPT ![me.fh] = WrittenContent(me.mode, ino[me.fh], me.pos, me.buf)]

\* (mutant) a failed transfer removes its temporary file.
StreamFailRemovingTemp(c) ==
  /\ call[c].pc = "stream"
  /\ ret' = DownloadRet("ConnectionError", 0, call[c])
  /\ call' = [call EXCEPT ![c] = IdleCall]
  /\ paths' = [paths EXCEPT ![TempPath(call[c].dest)] = NoInode]
  /\ inodes' = Collect(ClosedFile(inodes, call[c]), paths', call')
  /\ UNCHANGED <<dirExists, manifestFile, updaterVars>>

\* The connection breaks while the body is streamed: the file and the
\* progress bar are closed and the exception reaches the caller.
StreamFail(c) ==
  /\ call[c].pc = "stream"
  /\ ret' = DownloadRet("ConnectionError", 0, call[c])
  /\ call' = [call EXCEPT ![c] = IdleCall]
  /\ inodes' = Collect(ClosedFile(inodes, call[c]), paths, call')
  /\ UNCHANGED <<paths, dirExists, manifestFile, updaterVars>>

\* The loop over r.iter_content ends: every byte of the body has come, or
\* the connection was closed early under a response that declares no
\* length, which reads as the end of the body.  The file and the progress
\* bar are closed.
EndStream(c) ==
  LET me == call[c]
  IN
  /\ me.pc = "stream"
  /\ me.body = <<>> \/ me.total = NoTotal
  /\ call' = [call EXCEPT ![c] =
                [me EXCEPT !.pc = "rename", !.body = <<>>, !.fh = NoInode,
                           !.pos = 0, !.buf = <<>>]]
  /\ inodes' = Collect(ClosedFile(inodes, me), paths, call')
  /\ UNCHANGED <<paths, dirExists, manifestFile, updaterVars, ret>>

\* temp.rename(dest), return dest.
Finish(c) ==
  LET me == call[c]
      temp == TempPath(me.dest)
  IN
  /\ me.pc = "rename"
  /\ call' = [call EXCEPT ![c] = IdleCall]
  /\ IF Exists(temp)
     THEN /\ paths' = RenamedPaths(temp, me.dest)
          /\ ret' = DownloadRet("ok", 0, me)
     ELSE /\ paths' = paths
          /\ ret' = DownloadRet("FileNotFoundError", 0, me)
  /\ inodes' = Collect(inodes, paths', call')
  /\ UNCHANGED <<dirExists, manifestFile, updaterVars>>

(* --------------------------- load_manifest ---------------------------- *)

\* What requests.get(REMOTE_MANIFEST) may do: raise (no network, timeout),
\* or return a response with a status and a body.
ManifestStatuses == {200, 300, 404}
RemoteError == [kind |-> "error", status |-> 0, text |-> EmptyText]
RemoteResponse(status, text) == [kind |-> "response", status |-> status, text |-> text]
RemoteOutcomes ==
  {RemoteError} \cup {RemoteResponse(s, t) : s \in ManifestStatuses, t \in Texts}

\* The try block: get, raise_for_status, r.json() all pass.
RemoteYields(remote) ==
  /\ remote.kind = "response"
  /\ ~raise_for_status(remote.status)
  /\ json_loads(remote.text).ok

\* The except block: the local file is read if LOCAL_MANIFEST.exists().
LocalFallback(localf) ==
  IF localf.exists
  THEN IF json_loads(localf.text).ok
       THEN [kind |-> "ok", manifest |-> json_loads(localf.text).val, readLocal |-> TRUE]
       ELSE [kind |-> "JSONDecodeError", manifest |-> EmptyManifest, readLocal |-> TRUE]
  ELSE [kind |-> "RuntimeError", manifest |-> EmptyManifest, readLocal |-> FALSE]

\* (mutant) the remote manifest is merged over the local one.
load_manifest_merged(remote, localf) ==
  IF RemoteYields(remote)
  THEN LET r == json_loads(remote.text).val
           l == IF localf.exists /\ json_loads(localf.text).ok
                THEN json_loads(localf.text).val ELSE EmptyManifest
       IN [kind |-> "ok",
           manifest |-> [d \in DOMAIN r \cup DOMAIN l |->
                           IF d \in DOMAIN r THEN r[d] ELSE l[d]],
           readLocal |-> localf.exists]
  ELSE LocalFallback(localf)

\* load_manifest: the remote manifest if the fetch yields one, else the
\* local one; kind is "ok" or the exception that leaves the function.
load_manifest(remote, localf) ==
  IF RemoteYields(remote)
  THEN [kind |-> "ok", manifest |-> json_loads(remote.text).val, readLocal |-> FALSE]
  ELSE LocalFallback(localf)

ManifestRet(op, lm, remote, localf, codename) ==
  [NoRet EXCEPT !.op = op, !.kind = lm.kind, !.manifest = lm.manifest,
                !.readLocal = lm.readLocal, !.remote = remote,
                !.localFile = localf, !.codename = codename,
                !.manifestRequests = 1]

\* A caller calls load_manifest() and the remote source answers with
\* remote: the function returns the remote manifest, or raises RuntimeError
\* when the fetch yields none and LOCAL_MANIFEST.exists() is false;
\* otherwise LOCAL_MANIFEST.read_text() is next.
LoadManifest(c, remote) ==
  /\ call[c].pc = "idle"
  /\ remote \in RemoteOutcomes
  /\ IF RemoteYields(remote) \/ ~manifestFile.exists
     THEN /\ ret' = ManifestRet("load_manifest",
                                load_manifest(remote, manifestFile),
                                remote, manifestFile, "")
          /\ UNCHANGED call
     ELSE /\ call' = [call EXCEPT ![c] =
                 [IdleCall EXCEPT !.pc = "read", !.op = "load_manifest",
                                  !.remote = remote, !.manifestRequests = 1]]
          /\ ret' = NoRet
  /\ UNCHANGED <<paths, inodes, dirExists, manifestFile, updaterVars>>

\* json.loads(LOCAL_MANIFEST.read_text()) after LOCAL_MANIFEST.exists() was
\* true: the local manifest, JSONDecodeError, or FileNotFoundError when the
\* file has gone in between.  In search_latest_and_download the lookup
\* follows.
ReadLocal(c) ==
  LET me == call[c]
      lm == IF manifestFile.exists THEN LocalFallback(manifestFile)
            ELSE [kind |-> "FileNotFoundError", manifest |-> EmptyManifest,
                  readLocal |-> TRUE]
  IN
  /\ me.pc = "read"
  /\ IF me.op = "search_latest_and_download" /\ lm.kind = "ok"
     THEN /\ call' = [call EXCEPT ![c] =
                 [me EXCEPT !.pc = "resolved", !.manifest = lm.manifest,
                            !.remote = NoRemote]]
          /\ UNCHANGED ret
     ELSE /\ ret' = ManifestRet(me.op, lm, me.remote, manifestFile, me.codename)
          /\ call' = [call EXCEPT ![c] = IdleCall]
  /\ UNCHANGED <<paths, inodes, dirExists, manifestFile, updaterVars>>

(* --------------------- search_latest_and_download --------------------- *)

\* url.split("/")[-1]
FileNameOf(url) == url[Len(url)]

\* codename in manifest, manifest[codename]
InManifest(manifest, codename) == codename \in DOMAIN manifest

\* (mutant) the entry of some key of the manifest.
EntryForSomeKey(manifest, codename) ==
  manifest[CHOOSE d \in DOMAIN manifest : TRUE]

EntryFor(manifest, codename) == manifest[codename]

\* A caller calls search_latest_and_download(codename, out_dir, resume):
\* load_manifest runs as far as LoadManifest tells, and its exception, if
\* any, leaves the function.
SearchCall(c, codename, resume, remote) ==
  LET lm == load_manifest(remote, manifestFile)
      begun == [IdleCall EXCEPT
                  !.op = "search_latest_and_download", !.codename = codename,
                  !.resume = resume, !.manifestRequests = 1]
  IN
  /\ call[c].pc = "idle"
  /\ remote \in RemoteOutcomes
  /\ IF RemoteYields(remote)
     THEN /\ call' = [call EXCEPT ![c] =
                 [begun EXCEPT !.pc = "resolved", !.manifest = lm.manifest]]
          /\ ret' = NoRet
     ELSE IF manifestFile.exists
     THEN /\ call' = [call EXCEPT ![c] =
                 [begun EXCEPT !.pc = "read", !.remote = remote]]
          /\ ret' = NoRet
     ELSE /\ ret' = ManifestRet("search_latest_and_download", lm, remote,
                                manifestFile, codename)
          /\ UNCHANGED call
  /\ UNCHANGED <<paths, inodes, dirExists, manifestFile, updaterVars>>

\* The lookup: ValueError when the codename is no key of the manifest;
\* otherwise its entry's url gives the file name and download_url is called.
Lookup(c) ==
  LET me == call[c]
      entry == EntryFor(me.manifest, me.codename)
      dest == DestPath(FileNameOf(entry.url))
  IN
  /\ me.pc = "resolved"
  /\ IF InManifest(me.manifest, me.codename)
     THEN /\ call' = [call EXCEPT ![c] =
                 [BeginDownload(entry.url, dest, me.resume) EXCEPT
                    !.op = me.op, !.codename = me.codename,
                    !.manifest = me.manifest, !.entry = entry,
                    !.manifestRequests = me.manifestRequests]]
          /\ dirExists' = TRUE
          /\ UNCHANGED ret
     ELSE /\ ret' = [NoRet EXCEPT !.op = me.op, !.kind = "ValueError",
                                  !.manifest = me.manifest,
                                  !.codename = me.codename,
                                  !.manifestRequests = me.manifestRequests]
          /\ call' = [call EXCEPT ![c] = IdleCall]
          /\ UNCHANGED dirExists
  /\ UNCHANGED <<paths, inodes, manifestFile, updaterVars>>

(* ------------------------- manifest updater --------------------------- *)

\* The manifest file: absent, or holding a text.
ManifestFileOf(text) == [exists |-> TRUE, text |-> text]
NoManifestFile == [exists |-> FALSE, text |-> EmptyText]

\* File names of factory images, as the sequences of their pieces: runs of
\* lower-case letters and digits (they match [a-z0-9]+ and [a-z0-9.]+),
\* runs of these and "." (they match [a-z0-9.]+ only), "-", and pieces
\* with other characters.
AlnumPieces == {"c", "d", "factory", "ota"}
DottedPieces == {"1.0", "2.0", ".zip"}
FactoryName(codename, version) == <<codename, "-", version, "-", "factory", ".zip">>
UpdNames ==
  {FactoryName("c", "1.0"), FactoryName("c", "2.0"), FactoryName("d", "1.0"),
   <<"c", "-", "1.0", ".zip", "-", "factory">>,
   <<"c", "-", "1.0", "-", "ota", ".zip">>, <<"C", "-", "1.0", "-", "factory", ".zip">>,
   <<"c", ".zip">>}
UpdUrls == {<<"host", n>> : n \in UpdNames} \cup {NoUrl}

RECURSIVE Joined(_)
Joined(ps) == IF ps = <<>> THEN "" ELSE ps[1] \o Joined(Tail(ps))

\* The first "-" of a name at or after position i (past its end if none).
RECURSIVE NextDash(_, _)
NextDash(name, i) ==
  IF i > Len(name) \/ name[i] = "-" THEN i ELSE NextDash(name, i + 1)

\* (None, None) of parse_factory_filename.
NoParse == [ok |-> FALSE, codename |-> "", version |-> ""]

\* (mutant) the first piece of any file name is taken for the codename.
parse_first_piece(url) ==
  IF url = NoUrl THEN NoParse
  ELSE [ok |-> TRUE, codename |-> FileNameOf(url)[1], version |-> ""]

\* parse_factory_filename: (codename, version) of the file name of url when
\* it matches ^[a-z0-9]+-[a-z0-9.]+-factory, (None, None) otherwise.
parse_factory_filename(url) ==
  IF url = NoUrl THEN NoParse
  ELSE LET fname == FileNameOf(url)
           d1 == NextDash(fname, 1)
           d2 == NextDash(fname, d1 + 1)
       IN IF /\ 1 < d1 /\ d1 + 1 < d2 /\ d2 < Len(fname)
             /\ \A i \in 1..(d1 - 1) : fname[i] \in AlnumPieces
             /\ \A i \in (d1 + 1)..(d2 - 1) : fname[i] \in AlnumPieces \cup DottedPieces
             /\ fname[d2 + 1] = "factory"
          THEN [ok |-> TRUE, codename |-> Joined(SubSeq(fname, 1, d1 - 1)),
                version |-> Joined(SubSeq(fname, d1 + 1, d2 - 1))]
          ELSE NoParse

\* What requests.head may do: raise, or answer with a status, a content
\* type (zip or not) and a Content-Length (digits as a number, or none).
NoSize == -1
HeadError == [kind |-> "error", status |-> 0, zip |-> FALSE, size |-> NoSize]
HeadResponses ==
  {HeadError,
   [kind |-> "response", status |-> 200, zip |-> TRUE, size |-> ResLen],
   [kind |-> "response", status |-> 404, zip |-> FALSE, size |-> NoSize]}

\* verify_url_head: {size, ok} of the answer.
verify_url_head(h) ==
  IF h.kind = "error" THEN [size |-> NoSize, ok |-> FALSE]
  ELSE [size |-> h.size,
        ok |-> 200 <= h.status /\ h.status < 400 /\ (h.zip \/ h.size # NoSize)]

\* meta of update_manifest_with_entry.
EntryMeta(url, version, verify, h) ==
  [url |-> url, version |-> IF version = "" THEN "unknown" ELSE version,
   size |-> IF verify THEN verify_url_head(h).size ELSE NoSize,
   verified |-> IF verify THEN verify_url_head(h).ok ELSE FALSE]

\* Times int(time.time()) reads.
NoStamp == -1
Stamps == 0..MaxClock

\* manifest_path.with_suffix(f".bak.{stamp}"): the backup files are named
\* by the stamp.
NoBackups == [t \in Stamps |-> NoManifestFile]

\* The manifest the updater loads: the mapping of the file when it holds
\* a JSON document, {} when it does not exist, is empty or does not parse.
LoadedData(f) ==
  IF f.exists /\ json_loads(f.text).ok THEN json_loads(f.text).val ELSE EmptyManifest

\* (mutant) the manifest is started afresh with the one entry.
WithEntryOnly(data, codename, meta) == [k \in {codename} |-> meta]

\* data[codename] = meta
WithEntry(data, codename, meta) ==
  [k \in DOMAIN data \cup {codename} |-> IF k = codename THEN meta ELSE data[k]]

\* The updater when it runs nothing.
IdleUpd ==
  [pc |-> "idle", op |-> "none", result |-> "none", url |-> NoUrl,
   codename |-> "", meta |-> NoEntry, data |-> EmptyManifest,
   headSent |-> FALSE, pre |-> NoManifestFile, bak |-> NoStamp, n |-> 0]

\* What is kept of an update once it has ended.
FinishedUpd(u, result) ==
  [u EXCEPT !.pc = "idle", !.result = result, !.data = EmptyManifest]

\* (mutant) the previous manifest file is not kept.
ReplacedBackupsNone(bks, stamp, f) == bks

\* manifest_path.replace(bak): the backup named by stamp is now the file f,
\* replacing a backup of that name.
ReplacedBackups(bks, stamp, f) == [bks EXCEPT ![stamp] = f]

\* update_manifest_with_entry(url, manifest_path, verify) is called: the
\* url is parsed, ValueError if it gives no codename; else the HEAD request
\* is sent when verify is set, and meta is built.
UpdateCall(url, verify, h) ==
  LET p == parse_factory_filename(url)
      started == [IdleUpd EXCEPT !.op = "update_manifest_with_entry",
                                 !.url = url, !.pre = manifestFile,
                                 !.n = upd.n + 1]
  IN
  /\ upd.pc = "idle"
  /\ upd.n < MaxUpdates
  /\ h \in HeadResponses
  /\ upd' = IF p.ok
            THEN [started EXCEPT !.pc = "load", !.codename = p.codename,
                                 !.meta = EntryMeta(url, p.version, verify, h),
                                 !.headSent = verify]
            ELSE [started EXCEPT !.result = "ValueError"]
  /\ UNCHANGED <<downloadVars, manifestFile, manifestDirExists, backups, clock>>

\* manifest_path.parent.mkdir, then the existing manifest is loaded.
UpdLoad ==
  /\ upd.pc = "load"
  /\ manifestDirExists' = TRUE
  /\ upd' = [upd EXCEPT !.pc = "backup", !.data = LoadedData(manifestFile)]
  /\ UNCHANGED <<downloadVars, manifestFile, backups, clock>>

\* The updater script's main, with the entries its scrape (or the fallback
\* manifest) gave: nothing is written when there are none.
ScriptMain(data) ==
  LET started == [IdleUpd EXCEPT !.op = "main", !.pre = manifestFile,
                                 !.n = upd.n + 1]
  IN
  /\ upd.pc = "idle"
  /\ upd.n < MaxUpdates
  /\ upd' = IF data = EmptyManifest
            THEN [started EXCEPT !.result = "preserved"]
            ELSE [started EXCEPT !.pc = "backup", !.data = data]
  /\ UNCHANGED <<downloadVars, manifestFile, manifestDirExists, backups, clock>>

\* if manifest_path.exists(): manifest_path.replace(bak)
UpdBackup ==
  /\ upd.pc = "backup"
  /\ IF manifestFile.exists
     THEN /\ backups' = ReplacedBackups(backups, clock, manifestFile)
          /\ manifestFile' = NoManifestFile
          /\ upd' = [upd EXCEPT !.pc = "write", !.bak = clock]
     ELSE /\ upd' = [upd EXCEPT !.pc = "write"]
          /\ UNCHANGED <<backups, manifestFile>>
  /\ UNCHANGED <<downloadVars, manifestDirExists, clock>>

\* data[codename] = meta (update_manifest_with_entry), json.dumps(data),
\* and write_text opens the manifest file for writing: the file is there
\* and empty.  In a directory that does not exist the open fails.
UpdOpen ==
  LET data == IF upd.op = "main" THEN upd.data
              ELSE WithEntry(upd.data, upd.codename, upd.meta)
  IN
  /\ upd.pc = "write"
  /\ IF manifestDirExists
     THEN /\ manifestFile' = ManifestFileOf(EmptyText)
          /\ upd' = [upd EXCEPT !.pc = "flush", !.data = data]
     ELSE /\ upd' = FinishedUpd(upd, "FileNotFoundError")
          /\ UNCHANGED manifestFile
  /\ UNCHANGED <<downloadVars, manifestDirExists, backups, clock>>

\* The text is written and the file closed; the updater returns.
UpdFlush ==
  /\ upd.pc = "flush"
  /\ manifestFile' = ManifestFileOf(json_dumps(upd.data))
  /\ upd' = FinishedUpd(upd, "ok")
  /\ UNCHANGED <<downloadVars, manifestDirExists, backups, clock>>

\* A second passes.
Tick ==
  /\ clock < MaxClock
  /\ clock' = clock + 1
  /\ UNCHANGED <<downloadVars, manifestFile, manifestDirExists, backups, upd>>

\* No update has run or runs.
UpdaterAtRest ==
  /\ backups = NoBackups
  /\ clock = 0
  /\ upd = IdleUpd

(* --------------------------- specification ---------------------------- *)

\* The caller begins a call only while no file is longer than MaxFile
\* bytes: the files a run may find are within this bound, the files that
\* calls repeated without end would build are not.
WithinBounds == \A p \in Paths : Len(Content(p)) <= MaxFile

\* Temporary files a run may find: none, a prefix of the resource left by
\* an interrupted transfer, or bytes of an unrelated earlier transfer.
InitTemps ==
  {NoFile}
  \cup {FileOf(Prefix(Resource, k)) : k \in 0..ResLen}
  \cup {FileOf([i \in 1..k |-> StaleByte]) : k \in {1, MaxStale}}

\* Final files a run may find: none, or one published earlier.
InitDests == {NoFile, FileOf(<<StaleByte>>)}

\* The file system with the given temporary and final file.
InitFiles(temps, dests) ==
  /\ \E t \in temps, d \in dests :
       /\ paths = [p \in Paths |->
                     IF p = Temp /\ t.exists THEN 1
                     ELSE IF p = Dest /\ d.exists THEN 2
                     ELSE NoInode]
       /\ inodes = [i \in Inodes |->
                     IF i = 1 /\ t.exists THEN t.data
                     ELSE IF i = 2 /\ d.exists THEN d.data
                     ELSE <<>>]
  /\ dirExists \in BOOLEAN
  /\ (Exists(Temp) \/ Exists(Dest)) => dirExists

\* The local manifest and the remote outcomes of the download runs.
LocalManifest == [d \in Devices |-> [url |-> Url1, version |-> "1.0"]]
RemoteManifest == [d \in {"c"} |-> [url |-> Url2, version |-> "2.0"]]
FewRemoteOutcomes == {RemoteError, RemoteResponse(200, JsonText(RemoteManifest))}

Init ==
  /\ InitFiles(InitTemps, InitDests)
  /\ manifestFile = ManifestFileOf(JsonText(LocalManifest))
  /\ call = [c \in Callers |-> IdleCall]
  /\ ret = NoRet
  /\ manifestDirExists = TRUE
  /\ UpdaterAtRest

\* The steps of one caller.
Step(c) ==
  \/ \E resume \in BOOLEAN : WithinBounds /\ DownloadCall(c, Url1, resume)
  \/ StatTemp(c)
  \/ ConnectFail(c)
  \/ \E r \in ServerResponses(call[c].hasRange, call[c].existing) : Respond(c, r)
  \/ Open(c)
  \/ \E k \in 0..ChunkMax, through \in Throughs : IterChunk(c, k, through)
  \/ StreamFail(c)
  \/ EndStream(c)
  \/ Finish(c)
  \/ \E remote \in FewRemoteOutcomes : LoadManifest(c, remote)
  \/ \E codename \in Codenames, resume \in BOOLEAN, remote \in FewRemoteOutcomes :
       WithinBounds /\ SearchCall(c, codename, resume, remote)
  \/ ReadLocal(c)
  \/ Lookup(c)

\* The program is single-threaded and synchronous: one caller.
Next == Step(Main)

Spec == Init /\ [][Next]_vars

\* Manifest resolution and lookup under every outcome of the remote fetch
\* and every local manifest file, with a firmware source that is down.
ManifestFiles == {NoManifestFile} \cup {ManifestFileOf(t) : t \in Texts}

InitResolve ==
  /\ InitFiles({NoFile, FileOf(Prefix(Resource, 1))}, InitDests)
  /\ manifestFile \in ManifestFiles
  /\ call = [c \in Callers |-> IdleCall]
  /\ ret = NoRet
  /\ manifestDirExists = TRUE
  /\ UpdaterAtRest

StepResolve(c) ==
  \/ \E remote \in RemoteOutcomes : LoadManifest(c, remote)
  \/ \E codename \in Codenames, remote \in RemoteOutcomes :
       SearchCall(c, codename, TRUE, remote)
  \/ ReadLocal(c)
  \/ Lookup(c)
  \/ StatTemp(c)
  \/ ConnectFail(c)
  \/ \E r \in ServerResponses(call[c].hasRange, call[c].existing) :
       raise_for_status(r.status) /\ Respond(c, r)

NextResolve == StepResolve(Main)

SpecResolve == InitResolve /\ [][NextResolve]_vars

\* The caller of the resume protocol: it starts with no temporary file,
\* calls download_url with resume=True, calls it again after every call
\* that failed, and stops once a call has returned.  The firmware source
\* answers 200, 206 or 416, or refuses with a 4xx or 5xx.
InitRetry ==
  /\ InitFiles({NoFile}, InitDests)
  /\ manifestFile = NoManifestFile
  /\ call = [c \in Callers |-> IdleCall]
  /\ ret = NoRet
  /\ manifestDirExists = TRUE
  /\ UpdaterAtRest

RetryCall(c) == ret.kind # "ok" /\ WithinBounds /\ DownloadCall(c, Url1, TRUE)

\* The firmware source answers 200, 206 or 416.
GoodRespond(c) ==
  \E r \in ServerResponses(call[c].hasRange, call[c].existing) :
    r.status \in {200, 206, 416} /\ Respond(c, r)

BadRespond(c) ==
  \E r \in ServerResponses(call[c].hasRange, call[c].existing) :
    raise_for_status(r.status) /\ Respond(c, r)

NextChunk(c) == \E k \in 1..ChunkMax, through \in Throughs : IterChunk(c, k, through)

StepRetry(c) ==
  \/ RetryCall(c)
  \/ StatTemp(c)
  \/ ConnectFail(c)
  \/ GoodRespond(c)
  \/ BadRespond(c)
  \/ Open(c)
  \/ NextChunk(c)
  \/ IterChunk(c, 0, "none")
  \/ StreamFail(c)
  \/ EndStream(c)
  \/ Finish(c)

NextRetry == StepRetry(Main)

\* The caller does call again, and failures do not recur forever: a
\* request that is sent again and again is eventually answered, a stream
\* that is read again and again eventually delivers its next chunk and
\* eventually ends.
SpecRetry ==
  /\ InitRetry
  /\ [][NextRetry]_vars
  /\ WF_vars(RetryCall(Main))
  /\ WF_vars(Open(Main))
  /\ SF_vars(GoodRespond(Main))
  /\ SF_vars(NextChunk(Main))
  /\ WF_vars(StatTemp(Main))
  /\ SF_vars(EndStream(Main))
  /\ WF_vars(Finish(Main))

(* ------------------------------ claims -------------------------------- *)

\* A call of download_url (directly or through search_latest_and_download)
\* has ended and ret tells how.
Ended == ret.kind # "none" /\ ret.info.url # NoUrl

\* The body of the response a call has got.
SentBody(i) ==
  (CHOOSE r \in ServerResponses(i.hasRange, i.existing) : r.status = i.status).body

\* The stream delivered every byte of that body to the call (it was not
\* cut short under a response that declares no length).
BodyDelivered(i) == i.written = Len(SentBody(i))

\* C1: resume. If the temporary file held the first k bytes of the resource
\* (0 < k < N), download_url was called with resume=True and returned after
\* a 206 or a 200, then the final file has exactly N bytes and its first k
\* bytes are those the temporary file held (stated for the calls whose
\* stream delivered the whole body).
C1_ResumeYieldsResource ==
  LET i == ret.info
      k == Len(i.preTemp.data)
  IN (/\ Ended /\ ret.kind = "ok" /\ i.resume
      /\ i.preTemp.exists /\ 0 < k /\ k < ResLen
      /\ i.preTemp.data = Prefix(Resource, k)
      /\ i.status \in {200, 206} /\ BodyDelivered(i))
     => /\ Exists(i.dest)
        /\ Len(Content(i.dest)) = ResLen
        /\ Prefix(Content(i.dest), k) = i.preTemp.data

\* The part of C1 the code keeps: the same, for the answer 206 alone.
C1_ResumeWith206 ==
  LET i == ret.info
      k == Len(i.preTemp.data)
  IN (/\ Ended /\ ret.kind = "ok" /\ i.resume
      /\ i.preTemp.exists /\ 0 < k /\ k < ResLen
      /\ i.preTemp.data = Prefix(Resource, k)
      /\ i.status = 206 /\ BodyDelivered(i))
     => FileAt(i.dest) = FileOf(Resource)

\* C2: after a response whose status is neither a success (2xx) nor 416 the
\* call has failed with HTTPError carrying that status, and the temporary
\* file and the final file are as they were before the call (calls that the
\* network broke as well are left aside).
C2_ErrorStatusFailsAndKeepsFiles ==
  LET i == ret.info
  IN (/\ Ended /\ i.status # 0 /\ ret.kind # "ConnectionError"
      /\ ~(200 <= i.status /\ i.status < 300) /\ i.status # 416)
     => /\ ret.kind = "HTTPError" /\ ret.status = i.status
        /\ FileAt(TempPath(i.dest)) = i.preTemp
        /\ FileAt(i.dest) = i.preDest

\* The part of C2 the code keeps: the same, for the statuses 4xx and 5xx.
C2_ClientServerErrorKeepsFiles ==
  LET i == ret.info
  IN (Ended /\ 400 <= i.status /\ i.status < 600 /\ i.status # 416)
     => /\ ret.kind = "HTTPError" /\ ret.status = i.status
        /\ FileAt(TempPath(i.dest)) = i.preTemp
        /\ FileAt(i.dest) = i.preDest

\* C3: if the temporary file held k > 0 bytes, download_url was called with
\* resume=True and the answer was 416, then the call returned dest without
\* writing a byte, the final file is the former temporary file (k bytes,
\* same content) and the temporary file is gone.
C3_RangeNotSatisfiablePublishesTemp ==
  LET i == ret.info
  IN (/\ Ended /\ i.resume /\ i.preTemp.exists /\ Len(i.preTemp.data) > 0
      /\ i.status = 416)
     => /\ ret.kind = "ok" /\ ret.path = i.dest
        /\ i.written = 0
        /\ FileAt(i.dest) = i.preTemp
        /\ Len(Content(i.dest)) = i.existing
        /\ ~Exists(TempPath(i.dest))

\* C3's case: a resumed call on a non-empty temporary file was answered 416
\* and has returned.
C3_Witness ==
  /\ Ended /\ ret.kind = "ok" /\ ret.info.resume /\ ret.info.status = 416
  /\ Len(ret.info.preTemp.data) = ResLen
  /\ ret.info.preDest.exists

\* The paths of final files.
DestPaths == {DestPath(name) : name \in Names}

\* C4: the file at a destination changes (appears, or gets other bytes)
\* only in the step in which a call of download_url returns dest, and it
\* then is the file that was the temporary file, whole, which is gone from
\* the temporary path; so a call that fails never creates, truncates or
\* writes the destination.  Bytes are written to the file at the temporary
\* path only.
C4_PublishedOnlyByFinalRename ==
  [][/\ \A d \in DestPaths :
          FileAt(d)' # FileAt(d)
          => /\ ret'.kind = "ok" /\ ret'.path = d /\ ret' # ret
             /\ Exists(TempPath(d))
             /\ FileAt(d)' = FileAt(TempPath(d))
             /\ paths'[d] = paths[TempPath(d)]
             /\ ~Exists(TempPath(d))'
     /\ \A p \in Paths :
          (Exists(p)' /\ paths'[p] = paths[p] /\ Content(p)' # Content(p))
          => \E d \in DestPaths : p = TempPath(d)
    ]_vars

\* C4's case: a call has returned and has replaced an earlier final file by
\* the whole resource.
C4_Witness ==
  /\ Ended /\ ret.kind = "ok"
  /\ ret.info.preDest = FileOf(<<StaleByte>>)
  /\ FileAt(Dest) = FileOf(Resource)
  /\ ~Exists(Temp)

\* C5: retry convergence. The caller that calls download_url with
\* resume=True again after every failure, until a call returns, ends with
\* the final file being the whole resource (stated for a last call whose
\* stream delivered the whole body).
C5_RetryEndsWithResource ==
  (Ended /\ ret.kind = "ok" /\ BodyDelivered(ret.info))
  => FileAt(Dest) = FileOf(Resource)

\* The remote fetch succeeded: a response with a 2xx status whose body is a
\* JSON document.  It failed: no response, another status, or another body.
RemoteSucceeded(remote) ==
  /\ remote.kind = "response"
  /\ 200 <= remote.status /\ remote.status < 300
  /\ remote.text.kind = "json"

RemoteFailed(remote) == remote.kind # "none" /\ ~RemoteSucceeded(remote)

\* The local manifest file exists and holds a JSON document.
LocalValid(localf) == localf.exists /\ localf.text.kind = "json"

\* C6: when the remote fetch succeeds, load_manifest returns exactly the
\* remote mapping, whatever the local manifest file is, and does not read
\* the local file.
C6_RemoteReplacesLocal ==
  (ret.op = "load_manifest" /\ RemoteSucceeded(ret.remote))
  => /\ ret.kind = "ok"
     /\ ret.manifest = ret.remote.text.val
     /\ ~ret.readLocal

\* C6's case: the remote fetch succeeded while the local file holds a
\* manifest with a key the remote one lacks and another entry for a key
\* both have.
C6_Witness ==
  /\ ret.op = "load_manifest" /\ ret.kind = "ok"
  /\ RemoteSucceeded(ret.remote)
  /\ LocalValid(ret.localFile)
  /\ DOMAIN ret.remote.text.val = {"c"}
  /\ DOMAIN ret.localFile.text.val = Devices
  /\ ret.localFile.text.val["c"] # ret.remote.text.val["c"]

\* C7: when the remote fetch fails in any way (no response, a status that
\* is not 2xx, a body that is no JSON) and the local manifest file is valid,
\* load_manifest returns exactly the local manifest.
C7_RemoteFailureFallsBackToLocal ==
  (/\ ret.op = "load_manifest" /\ RemoteFailed(ret.remote)
   /\ LocalValid(ret.localFile))
  => /\ ret.kind = "ok"
     /\ ret.manifest = ret.localFile.text.val

\* The part of C7 the code keeps: the same, when the failure is no
\* response, a 4xx or 5xx status, or a body that is no JSON.
C7_FallbackOnErrorOrBadBody ==
  (/\ ret.op = "load_manifest"
   /\ \/ ret.remote.kind = "error"
      \/ ret.remote.kind = "response" /\ 400 <= ret.remote.status
      \/ ret.remote.kind = "response" /\ ret.remote.text.kind # "json"
   /\ LocalValid(ret.localFile))
  => /\ ret.kind = "ok"
     /\ ret.manifest = ret.localFile.text.val
     /\ ret.readLocal

\* C8: load_manifest fails only when both sources fail, and every failure
\* of load_manifest is the one error RuntimeError, be the local file absent
\* or unparseable.
C8_OnlyManifestUnavailable ==
  (ret.op = "load_manifest" /\ ret.kind # "ok")
  => /\ ret.kind = "RuntimeError"
     /\ RemoteFailed(ret.remote)
     /\ ~LocalValid(ret.localFile)

\* The part of C8 the code keeps: load_manifest fails only when both
\* sources fail, with RuntimeError when there is no local file.
C8_FailsOnlyWhenBothFail ==
  (ret.op = "load_manifest" /\ ret.kind # "ok")
  => /\ RemoteFailed(ret.remote)
     /\ ~LocalValid(ret.localFile)
     /\ (~ret.localFile.exists => ret.kind = "RuntimeError")

\* C9: the lookup of search_latest_and_download. With manifest M and
\* codename d, if d is a key of M the entry used is exactly M[d], otherwise
\* the call fails with ValueError; M is the same afterwards.
C9_LookupYieldsEntryOrUnknown ==
  [][(call[Main].pc = "resolved" /\ call'[Main].pc # "resolved")
     => LET M == call[Main].manifest
            d == call[Main].codename
        IN IF d \in DOMAIN M
           THEN /\ call'[Main].pc \in {"stat", "get"}
                /\ call'[Main].entry = M[d]
                /\ call'[Main].url = M[d].url
                /\ call'[Main].manifest = M
                /\ ret'.kind = "none"
           ELSE /\ ret'.kind = "ValueError"
                /\ ret'.manifest = M
                /\ ret'.codename = d
                /\ call'[Main].pc = "idle"
    ]_vars

\* C9's case: the lookup has found the entry of "d" in a manifest that
\* holds another entry for "c".
C9_Witness ==
  /\ call[Main].pc = "get" /\ call[Main].op = "search_latest_and_download"
  /\ call[Main].codename = "d"
  /\ DOMAIN call[Main].manifest = Devices
  /\ call[Main].manifest["c"] # call[Main].manifest["d"]
  /\ call[Main].entry = call[Main].manifest["d"]

\* C10: search_latest_and_download for a codename that is no key of the
\* resolved manifest fails with ValueError, and when load_manifest fails
\* the failure is RuntimeError; in both cases no request went to the
\* firmware source, no directory was made and no file was made or changed.
C10_UnknownDeviceTouchesNothing ==
  [][/\ (call[Main].pc \in {"idle", "read"} /\ ret' # ret
         /\ ret'.op = "search_latest_and_download")
        => /\ ret'.kind = "RuntimeError"
           /\ call'[Main].pc = "idle"
           /\ UNCHANGED <<paths, inodes, dirExists>>
     /\ (call[Main].pc \in {"idle", "read"}
         /\ call'[Main].pc \in {"read", "resolved"})
        => UNCHANGED <<paths, inodes, dirExists>>
     /\ (call[Main].pc = "resolved"
         /\ call[Main].codename \notin DOMAIN call[Main].manifest)
        => /\ ret'.kind = "ValueError"
           /\ call'[Main].pc = "idle"
           /\ UNCHANGED <<paths, inodes, dirExists>>
    ]_vars

\* The part of C10 the code keeps: whatever the error, a call that ends at
\* load_manifest or at the lookup sends no request to the firmware source
\* and leaves directory and files alone.
C10_NoEffectBeforeDownload ==
  [][(ret' # ret /\ ret'.op = "search_latest_and_download"
      /\ call[Main].pc \in {"idle", "read", "resolved"})
     => /\ ret'.kind \in {"RuntimeError", "JSONDecodeError", "ValueError"}
        /\ call'[Main].pc = "idle"
        /\ UNCHANGED <<paths, inodes, dirExists>>
    ]_vars

\* The steps of search_latest_and_download come in the order resolve,
\* lookup, fetch: the manifest is resolved from idle (through the read of
\* the local file, if it comes to that), download_url is entered from the
\* lookup only.
SearchInOrder ==
  /\ (call'[Main].pc = "read" /\ call[Main].pc # "read")
     => call[Main].pc = "idle"
  /\ (call'[Main].pc = "resolved" /\ call[Main].pc # "resolved")
     => call[Main].pc \in {"idle", "read"}
  /\ (call'[Main].pc \in {"stat", "get"} /\ call[Main].pc \notin {"stat", "get"}
      /\ call'[Main].op = "search_latest_and_download")
     => call[Main].pc = "resolved"

\* Temporary files that hold nothing foreign: none, or a prefix of the
\* resource.
CleanTemps == {NoFile} \cup {FileOf(Prefix(Resource, k)) : k \in 0..ResLen}

\* C11: search_latest_and_download for a device d of the resolved manifest
\* M resolves, looks up and fetches in that order; when it returns, the
\* path returned is out_dir joined with the last "/"-separated piece of
\* M[d].url, the URL requested was M[d].url, and the file at the returned
\* path holds the whole resource (stated for the calls that found no
\* temporary file or a prefix of the resource).
C11_SearchFetchesEntryUrl ==
  [][/\ SearchInOrder
     /\ (/\ call[Main].op = "search_latest_and_download"
         /\ call[Main].preTemp \in CleanTemps
         /\ ret' # ret /\ ret'.kind = "ok" /\ BodyDelivered(ret'.info))
        => LET M == call[Main].manifest
               d == call[Main].codename
           IN /\ d \in DOMAIN M
              /\ call[Main].url = M[d].url
              /\ ret'.path = DestPath(FileNameOf(M[d].url))
              /\ \A p \in DestPaths :
                   p = ret'.path => FileAt(p)' = FileOf(Resource)
    ]_vars

\* The part of C11 the code keeps: the order, the path, the URL; and the
\* content, for a call that found no temporary file and was answered 200.
C11_SearchPathAndUrlFromEntry ==
  [][/\ SearchInOrder
     /\ (/\ call[Main].op = "search_latest_and_download"
         /\ ret' # ret /\ ret'.kind = "ok")
        => LET M == call[Main].manifest
               d == call[Main].codename
           IN /\ d \in DOMAIN M
              /\ call[Main].url = M[d].url
              /\ ret'.path = DestPath(FileNameOf(M[d].url))
              /\ ret'.info.url = M[d].url
              /\ (/\ ~call[Main].preTemp.exists /\ call[Main].status = 200
                  /\ BodyDelivered(ret'.info))
                 => \A p \in DestPaths :
                      p = ret'.path => FileAt(p)' = FileOf(Resource)
    ]_vars

\* The temporary file after a failed call: as before the call when the
\* call failed before the body was streamed; otherwise what it held when
\* streaming began followed by the bytes written.
TempLeftByFailure ==
  LET i == ret.info
      temp == TempPath(i.dest)
      opened == IF i.resume /\ Len(i.preTemp.data) > 0 THEN i.preTemp.data ELSE <<>>
  IN (Ended /\ ret.kind # "ok")
     => IF i.status = 0 \/ ret.kind = "HTTPError"
        THEN FileAt(temp) = i.preTemp
        ELSE /\ FileAt(temp) = FileOf(opened \o Prefix(SentBody(i), i.written))
             /\ i.written <= Len(SentBody(i))

\* C12: a failing call of download_url leaves the temporary file on disk:
\* as it was before the call if the failure came before the body (no
\* connection, timeout, error status), and with its content at the start of
\* streaming followed by exactly the chunks written if the failure came
\* while streaming; the next call with resume=True on the same destination
\* starts from that byte count and changes no file before its request.
C12_FailureLeavesTemp ==
  [][/\ TempLeftByFailure'
     /\ (call[Main].pc # "get" /\ call'[Main].pc = "get" /\ call'[Main].resume)
        => LET temp == TempPath(call'[Main].dest)
           IN /\ call'[Main].existing = existing_bytes(temp)
              /\ call'[Main].hasRange = (existing_bytes(temp) > 0)
              /\ call'[Main].preTemp = FileAt(temp)
     /\ (call[Main].pc # "get" /\ call'[Main].pc \in {"stat", "get"})
        => UNCHANGED <<paths, inodes>>
    ]_vars

\* C12's case: a resumed transfer that found one byte and was answered 206
\* broke after it had appended one byte; the temporary file holds the two.
C12_Witness ==
  /\ Ended /\ ret.kind = "ConnectionError"
  /\ ret.info.resume /\ ret.info.status = 206
  /\ ret.info.existing = 1 /\ ret.info.written = 1
  /\ FileAt(TempPath(ret.info.dest)) = FileOf(Prefix(Resource, 2))

\* The caller that fetches one destination again and again: it starts with
\* no final file and with no temporary file or a prefix of the resource in
\* it, and calls download_url (resume true or false) whenever no call runs.
InitAgain ==
  /\ InitFiles(CleanTemps, {NoFile})
  /\ manifestFile = NoManifestFile
  /\ call = [c \in Callers |-> IdleCall]
  /\ ret = NoRet
  /\ manifestDirExists = TRUE
  /\ UpdaterAtRest

StepAgain(c) ==
  \/ \E resume \in BOOLEAN : WithinBounds /\ DownloadCall(c, Url1, resume)
  \/ StatTemp(c)
  \/ ConnectFail(c)
  \/ \E r \in ServerResponses(call[c].hasRange, call[c].existing) : Respond(c, r)
  \/ Open(c)
  \/ \E k \in 0..ChunkMax, through \in Throughs : IterChunk(c, k, through)
  \/ StreamFail(c)
  \/ EndStream(c)
  \/ Finish(c)

NextAgain == StepAgain(Main)

SpecAgain == InitAgain /\ [][NextAgain]_vars

\* C13: after a call of download_url has returned, the temporary file is
\* gone; a later call for the same url and destination that starts in that
\* state (final file published by an earlier call, no temporary file)
\* sends a request without Range, whatever resume is, and when it returns
\* (its stream having delivered the whole body) the final file is byte for
\* byte the one the earlier call had published.
C13_CompletedFetchIsIdempotent ==
  LET i == ret.info
  IN (Ended /\ ret.kind = "ok")
     => /\ ~Exists(TempPath(i.dest))
        /\ (i.preDest.exists /\ ~i.preTemp.exists)
           => /\ ~i.hasRange /\ i.existing = 0
              /\ BodyDelivered(i) => FileAt(i.dest) = i.preDest

\* The part of C13 the code keeps: the temporary file is gone after a
\* return, the later call sends no Range, and when it is answered 200 it
\* publishes the whole resource.
C13_RefetchIsFullRequest ==
  LET i == ret.info
  IN (Ended /\ ret.kind = "ok")
     => /\ ~Exists(TempPath(i.dest))
        /\ (i.preDest.exists /\ ~i.preTemp.exists)
           => /\ ~i.hasRange /\ i.existing = 0
              /\ (i.status = 200 /\ BodyDelivered(i))
                 => FileAt(i.dest) = FileOf(Resource)

\* The manifest updater at work: update_manifest_with_entry and the
\* script's main are called one after the other, at most MaxUpdates times,
\* while the clock advances; the manifest file is at first absent, empty,
\* unparseable or a manifest written earlier.
OldManifest == [d \in {"d"} |-> [url |-> Url2, version |-> "2.0"]]
InitManifestFiles ==
  {NoManifestFile, ManifestFileOf(EmptyText), ManifestFileOf(GarbageText),
   ManifestFileOf(JsonText(OldManifest))}

InitUpdate ==
  /\ InitFiles({NoFile}, {NoFile})
  /\ dirExists = FALSE
  /\ call = [c \in Callers |-> IdleCall]
  /\ ret = NoRet
  /\ manifestFile \in InitManifestFiles
  /\ manifestDirExists \in BOOLEAN
  /\ manifestFile.exists => manifestDirExists
  /\ UpdaterAtRest

ScrapedData == {EmptyManifest, RemoteManifest}

NextUpdate ==
  \/ \E url \in UpdUrls, verify \in BOOLEAN, h \in HeadResponses :
       UpdateCall(url, verify, h)
  \/ UpdLoad
  \/ \E data \in ScrapedData : ScriptMain(data)
  \/ UpdBackup
  \/ UpdOpen
  \/ UpdFlush
  \/ Tick

SpecUpdate == InitUpdate /\ [][NextUpdate]_vars

\* C14: backup before overwrite. The updater (update_manifest_with_entry
\* or the script's main) touches an existing manifest file first by moving
\* it, as it is, to the backup named by the current second, and writes
\* only then; when the update has returned, the backup holds exactly the
\* bytes the manifest file had before the update.  When there was no
\* manifest file, no backup is made.
C14_BackupBeforeOverwrite ==
  [][/\ (manifestFile.exists /\ manifestFile' # manifestFile /\ upd.pc # "flush")
        => /\ manifestFile' = NoManifestFile
           /\ backups'[clock] = manifestFile
           /\ \A t \in Stamps \ {clock} : backups'[t] = backups[t]
     /\ (upd.pc = "flush" /\ upd'.pc = "idle")
        => /\ upd'.result = "ok"
           /\ manifestFile'.exists
           /\ IF upd.pre.exists
              THEN upd.bak \in Stamps /\ backups'[upd.bak] = upd.pre
              ELSE upd.bak = NoStamp
     /\ backups' # backups => (manifestFile.exists /\ upd.pc = "backup")
    ]_vars

\* C14's case: update_manifest_with_entry has added the entry of "c" to a
\* manifest that held "d", and the backup holds the manifest as it was.
C14_Witness ==
  /\ upd.pc = "idle" /\ upd.op = "update_manifest_with_entry"
  /\ upd.result = "ok"
  /\ upd.pre = ManifestFileOf(JsonText(OldManifest))
  /\ upd.bak \in Stamps /\ backups[upd.bak] = upd.pre
  /\ manifestFile.exists /\ DOMAIN manifestFile.text.val = {"c", "d"}

\* C15: append-only while resuming. Every step that changes the temporary
\* file and leaves it in place either appends bytes to it (its byte count
\* does not decrease and the bytes it held stay where they were), or
\* empties it when a call with resume=False opens it; a call with
\* resume=True truncates only an empty or absent file.  The temporary file
\* goes away only by the rename that publishes it.
C15_TempAppendOnlyWhileResuming ==
  [][/\ (Exists(Temp) /\ Exists(Temp)')
        => \/ /\ StatSize(Temp)' >= StatSize(Temp)
              /\ \A j \in 1..StatSize(Temp) : Content(Temp)'[j] = Content(Temp)[j]
           \/ /\ Content(Temp)' = <<>>
              /\ call[Main].pc = "open" /\ ~call[Main].resume
     /\ (Exists(Temp) /\ ~Exists(Temp)')
        => /\ FileAt(Dest)' = FileAt(Temp)
           /\ ret'.kind = "ok"
    ]_vars

\* C15's case: a call with resume=True that found the first byte of the
\* resource has appended the two others to it.
C15_Witness ==
  /\ call[Main].pc = "stream" /\ call[Main].resume
  /\ call[Main].existing = 1 /\ call[Main].written = 2
  /\ Content(Temp) = Resource

\* The open mode and the Range header of a call under way agree: the file
\* is (to be) opened "ab" exactly when the request carries Range.
ModeAgreesWithRange ==
  \A c \in Callers :
    call[c].pc \in {"get", "open", "stream"}
    => /\ call[c].hasRange <=> call[c].mode = "ab"
       /\ ~call[c].hasRange <=> call[c].mode = "wb"

\* C16: request shape. The request of a call carries a Range header if and
\* only if resume is set and the temporary file existed with a size above
\* 0 when the call began; the range then starts at exactly that size and
\* the file is opened for append; in every other case there is no Range
\* header and the file is opened for truncate-write.  Open mode and Range
\* header agree as long as the call runs.
C16_RangeIffResumingNonEmpty ==
  [][/\ LET me == call'[Main]
            size == StatSize(TempPath(me.dest))
            nonEmpty == Exists(TempPath(me.dest)) /\ size > 0
        IN (call[Main].pc \notin {"get", "open", "stream"} /\ me.pc = "get")
           => /\ me.hasRange <=> (me.resume /\ nonEmpty)
              /\ me.hasRange => (me.existing = size /\ me.mode = "ab")
              /\ ~me.hasRange => me.mode = "wb"
              /\ me.existing = (IF Exists(TempPath(me.dest)) THEN size ELSE 0)
     /\ ModeAgreesWithRange'
    ]_vars


\* C16's case: a call with resume=True has found two bytes and is about to
\* send its request with Range: bytes=2-; it will open the file for append.
C16_Witness ==
  /\ call[Main].pc = "get" /\ call[Main].resume
  /\ StatSize(Temp) = 2
  /\ call[Main].hasRange /\ call[Main].existing = 2 /\ call[Main].mode = "ab"

\* C17: a call of download_url with resume=False that returns has made the
\* final file byte for byte the body of the response, whatever the
\* temporary file held before (nothing, a prefix of the resource, other
\* bytes): the earlier content is gone, and so is the temporary file.
C17_NoResumeDiscardsTemp ==
  LET i == ret.info
  IN (Ended /\ ret.kind = "ok" /\ ~i.resume)
     => /\ ~i.hasRange
        /\ FileAt(i.dest) = FileOf(SentBody(i))
        /\ i.written = Len(SentBody(i))
        /\ ~Exists(TempPath(i.dest))

\* C17, amended: a call of download_url with resume=False that returns has
\* made the final file byte for byte the bytes of the body that the stream
\* delivered, which are the whole body when the response declares its
\* length; whatever the temporary file held before is gone, and so is the
\* temporary file.
C17_NoResumePublishesDeliveredBody ==
  [][LET me == call[Main]
     IN (me.pc = "rename" /\ ~me.resume /\ ret' # ret /\ ret'.kind = "ok")
        => /\ ~me.hasRange
           /\ me.written <= Len(SentBody(me))
           /\ me.total # NoTotal => BodyDelivered(me)
           /\ \A d \in DestPaths :
                d = me.dest
                => /\ FileAt(d)' = FileOf(Prefix(SentBody(me), me.written))
                   /\ ~Exists(TempPath(d))'
    ]_vars

\* C17's case: a call with resume=False that found a temporary file of
\* MaxStale foreign bytes has returned, and the final file is the resource.
C17_Witness ==
  /\ Ended /\ ret.kind = "ok" /\ ~ret.info.resume
  /\ ret.info.preTemp = FileOf([j \in 1..MaxStale |-> StaleByte])
  /\ ret.info.status = 200
  /\ FileAt(Dest) = FileOf(Resource)

\* Calls of every kind with sources that fail in every way: the manifest
\* file is absent, unparseable or valid, the remote manifest source is
\* down, refuses, answers with text that is no JSON, or with a manifest.
CallManifestFiles ==
  {NoManifestFile, ManifestFileOf(GarbageText), ManifestFileOf(JsonText(LocalManifest))}
CallRemoteOutcomes ==
  {RemoteError, RemoteResponse(404, EmptyText), RemoteResponse(200, GarbageText),
   RemoteResponse(200, JsonText(RemoteManifest))}

InitCalls ==
  /\ InitFiles({NoFile, FileOf(Prefix(Resource, 1))}, {NoFile})
  /\ manifestFile \in CallManifestFiles
  /\ call = [c \in Callers |-> IdleCall]
  /\ ret = NoRet
  /\ manifestDirExists = TRUE
  /\ UpdaterAtRest

StepCalls(c) ==
  \/ \E resume \in BOOLEAN : WithinBounds /\ DownloadCall(c, Url1, resume)
  \/ StatTemp(c)
  \/ ConnectFail(c)
  \/ \E r \in ServerResponses(call[c].hasRange, call[c].existing) : Respond(c, r)
  \/ Open(c)
  \/ \E k \in 0..ChunkMax, through \in Throughs : IterChunk(c, k, through)
  \/ StreamFail(c)
  \/ EndStream(c)
  \/ Finish(c)
  \/ \E remote \in CallRemoteOutcomes : LoadManifest(c, remote)
  \/ \E codename \in Codenames, remote \in CallRemoteOutcomes :
       WithinBounds /\ SearchCall(c, codename, TRUE, remote)
  \/ ReadLocal(c)
  \/ Lookup(c)

NextCalls == StepCalls(Main)

SpecCalls == InitCalls /\ [][NextCalls]_vars

\* The requests a call has sent: none to the firmware source before its
\* requests.get, one from then on and when it has ended; one to the remote
\* manifest source for a call of load_manifest or
\* search_latest_and_download.
OneRequestPerCall ==
  /\ \A c \in Callers :
       /\ call[c].requests =
            (IF call[c].pc \in {"open", "stream", "rename"} THEN 1 ELSE 0)
       /\ call[c].manifestRequests =
            (IF call[c].op \in {"load_manifest", "search_latest_and_download"}
             THEN 1 ELSE 0)
  /\ Ended => ret.info.requests = 1
  /\ ret.op \in {"load_manifest", "search_latest_and_download"}
     => ret.manifestRequests = 1
  /\ (ret.op = "search_latest_and_download" /\ ~Ended) => ret.info.requests = 0

\* The error search_latest_and_download ends with is the one its step
\* raised: load_manifest's, the lookup's, raise_for_status's with the
\* status of the response, or the network's.
ErrorAsRaised ==
  (ret.op = "search_latest_and_download" /\ ret.kind # "ok")
  => \/ /\ ret.kind \in {"RuntimeError", "JSONDecodeError"}
        /\ ret.kind = load_manifest(ret.remote, ret.localFile).kind
     \/ /\ ret.kind = "ValueError"
        /\ ~InManifest(ret.manifest, ret.codename)
     \/ /\ ret.kind = "HTTPError"
        /\ ret.status = ret.info.status /\ raise_for_status(ret.status)
     \/ /\ ret.kind = "ConnectionError"
        /\ ret.status = 0

\* C18: no internal retry. A call of download_url sends exactly one
\* request to the firmware source, a call of load_manifest at most one to
\* the remote manifest source; after a network error, a timeout or an
\* error status the call returns with that failure in the same step and
\* sends nothing more; the error reaches the caller of
\* search_latest_and_download as it was raised.
C18_OneRequestNoRetry ==
  [][/\ OneRequestPerCall'
     /\ ErrorAsRaised'
     /\ (call[Main].pc \in {"get", "open", "stream", "rename"} /\ ret' # ret
         /\ ret'.kind # "ok")
        => /\ call'[Main].pc = "idle"
           /\ ret'.info.requests = 1
           /\ ret'.op = call[Main].op
     /\ (call'[Main].pc = "get" /\ call'[Main] # call[Main])
        => call[Main].pc \in {"idle", "resolved", "stat"}
    ]_vars

\* C18's case: search_latest_and_download has ended with the HTTPError of
\* a 503 answer, after one request to each source.
C18_Witness ==
  /\ ret.op = "search_latest_and_download" /\ ret.kind = "HTTPError"
  /\ ret.status = 503
  /\ ret.info.requests = 1 /\ ret.manifestRequests = 1

\* C19: expected total. When the response declares a length L that parses,
\* the total of the progress bar is L + existing if the request carried
\* Range and L otherwise, and for every success response (200 or 206) it
\* is the size of the resource; when the length is missing or does not
\* parse, the total is unknown.
C19_TotalIsResourceSize ==
  \A c \in Callers :
    LET me == call[c]
    IN me.pc \in {"open", "stream"}
       => \/ me.total = NoTotal
          \/ /\ me.total = Len(SentBody(me)) + (IF me.hasRange THEN me.existing ELSE 0)
             /\ me.status \in {200, 206} => me.total = ResLen

\* The part of C19 the code keeps: the total is L + existing with Range
\* and L without; it is the size of the resource when the request carried
\* no Range or the answer is 206; when the transfer completes, the file
\* published has as many bytes as a known total says; with an unknown total
\* the body is streamed and the file published all the same.
C19_TotalFromDeclaredLength ==
  [][LET me == call[Main]
     IN /\ (me.pc = "get" /\ call'[Main].pc = "open")
           => LET answer == call'[Main]
              IN \/ answer.total = NoTotal
                 \/ /\ answer.total = Len(answer.body)
                                      + (IF me.hasRange THEN me.existing ELSE 0)
                    /\ (answer.status = 206 \/ (answer.status = 200 /\ ~me.hasRange))
                       => answer.total = ResLen
        /\ (me.pc = "stream" /\ ret' # ret /\ ret'.kind = "ok")
           => /\ me.total # NoTotal => StatSize(me.dest)' = me.total
              /\ me.total = NoTotal
                 => StatSize(me.dest)' = Len(OpenedContent(me.mode, me.preTemp.data))
                                         + Len(SentBody(me))
    ]_vars

\* The temporary file, when there is one, holds a prefix of the resource.
TempSound ==
  Exists(Temp)
  => /\ StatSize(Temp) <= ResLen
     /\ Content(Temp) = Prefix(Resource, StatSize(Temp))

\* Several callers fetch one destination at the same time, each call by
\* call; nothing failed before (no temporary file, no final file), the
\* network does not fail, and the firmware source answers as asked: 200 to
\* a request without Range, 206 or 416 to one with Range.
InitConcurrent ==
  /\ InitFiles({NoFile}, {NoFile})
  /\ dirExists = TRUE
  /\ manifestFile = NoManifestFile
  /\ call = [c \in Callers |-> IdleCall]
  /\ ret = NoRet
  /\ manifestDirExists = TRUE
  /\ UpdaterAtRest

RangeHonoured(hasRange, r) ==
  /\ r.status = (IF ~hasRange THEN 200 ELSE IF r.body = <<>> THEN 416 ELSE 206)
  /\ r.clen = (IF r.status = 416 THEN ClMissing ELSE Len(r.body))

StepConcurrent(c) ==
  \/ \E resume \in BOOLEAN : WithinBounds /\ DownloadCall(c, Url1, resume)
  \/ StatTemp(c)
  \/ \E r \in ServerResponses(call[c].hasRange, call[c].existing) :
       RangeHonoured(call[c].hasRange, r) /\ Respond(c, r)
  \/ Open(c)
  \/ \E k \in 1..ChunkMax, through \in Throughs : IterChunk(c, k, through)
  \/ EndStream(c)
  \/ Finish(c)

NextConcurrent == \E c \in Callers : StepConcurrent(c)

SpecConcurrent == InitConcurrent /\ [][NextConcurrent]_vars

\* C20: fetches of one destination are not coordinated. With two calls
\* interleaved a state is reachable in which the temporary file is no
\* prefix of the resource or the published final file is not the resource
\* (C20_InterleavedFetchesCorrupt is reachable under SpecConcurrent); with
\* one call at a time no such state is reachable. Stated here for the
\* temporary file: with one call at a time it is always a prefix of the
\* resource.
C20_OneFetchAtATimeKeepsTempSound ==
  (\A c \in Callers \ {Main} : call[c].pc = "idle") => TempSound

\* The first half of C20: two calls run at once, neither has failed, the
\* source has honoured every request, and the final file one of them
\* published is not the resource while the other still writes to it.
C20_InterleavedFetchesCorrupt ==
  /\ Exists(Dest) /\ Content(Dest) # Resource
  /\ ret.kind = "ok"
  /\ \E c \in Callers : call[c].pc = "stream" /\ call[c].fh = paths[Dest]

\* An update by update_manifest_with_entry has returned; the manifest file
\* is as that update left it.
EntryUpdated ==
  /\ upd.pc = "idle" /\ upd.op = "update_manifest_with_entry"
  /\ upd.result = "ok"

\* C21: update_manifest_with_entry adds or replaces exactly one key. When
\* the manifest file held a valid manifest before the call, the manifest
\* after it is the one before with the codename parsed from the url mapped
\* to the returned entry, every other key and value as before; when the
\* file was absent, empty or unparseable, the manifest has that one key
\* only.  An update whose entry the manifest already held leaves the
\* manifest as it was (the same url applied twice gives what it gives
\* once).
C21_UpdateSetsExactlyOneKey ==
  EntryUpdated
  => LET before == upd.pre
         key == parse_factory_filename(upd.url).codename
     IN /\ manifestFile.exists /\ manifestFile.text.kind = "json"
        /\ upd.codename = key
        /\ LET after == manifestFile.text.val
           IN /\ key \in DOMAIN after /\ after[key] = upd.meta
              /\ upd.meta.url = upd.url
              /\ IF LocalValid(before)
                 THEN /\ DOMAIN after = DOMAIN before.text.val \cup {key}
                      /\ \A k \in DOMAIN before.text.val \ {key} :
                           after[k] = before.text.val[k]
                      /\ (key \in DOMAIN before.text.val
                          /\ before.text.val[key] = upd.meta)
                         => manifestFile = before
                 ELSE DOMAIN after = {key}

\* C21's case: the update has replaced the entry of "c" in a manifest that
\* held "c" and "d", and the entry of "d" is as before.
C21_Witness ==
  /\ EntryUpdated /\ upd.codename = "c"
  /\ LocalValid(upd.pre) /\ DOMAIN upd.pre.text.val = {"c", "d"}
  /\ manifestFile.text.val["c"] # upd.pre.text.val["c"]
  /\ manifestFile.text.val["d"] = upd.pre.text.val["d"]

\* Urls whose file name is not <codename>-<version>-factory...: the empty
\* url, a name with another word in the place of "factory", a name that
\* begins with an upper-case letter, a name without "-".
UnparsableUrls ==
  {NoUrl, <<"host", <<"c", "-", "1.0", "-", "ota", ".zip">> >>,
   <<"host", <<"C", "-", "1.0", "-", "factory", ".zip">> >>,
   <<"host", <<"c", ".zip">> >>}

\* C22: update_manifest_with_entry with a url whose file name does not
\* parse (the empty url among them) fails with ValueError before any
\* effect: no HEAD request is sent, no directory made, no backup made, the
\* manifest file is left as it is, and the updater has returned.
C22_UnparsableUrlHasNoEffect ==
  [][(/\ upd' # upd /\ upd.pc = "idle"
      /\ upd'.op = "update_manifest_with_entry"
      /\ upd'.url \in UnparsableUrls)
     => /\ upd'.result = "ValueError" /\ upd'.pc = "idle"
        /\ ~upd'.headSent
        /\ UNCHANGED <<manifestFile, manifestDirExists, backups>>
    ]_vars

\* C22's case: the call with a url named ...-ota.zip has failed with
\* ValueError where there is no manifest directory, and there is none
\* afterwards, nor a backup.
C22_Witness ==
  /\ upd.pc = "idle" /\ upd.result = "ValueError"
  /\ upd.url = <<"host", <<"c", "-", "1.0", "-", "ota", ".zip">> >>
  /\ ~upd.headSent
  /\ ~manifestDirExists /\ ~manifestFile.exists /\ backups = NoBackups

\* Calls of download_url on one destination, one after the other, with
\* resume true or false, whether the call before failed or returned; at
\* first there is no temporary file.  The firmware source answers 200, 206
\* or 416, or refuses with a 4xx or 5xx; the network may fail at any point.
InitIntegrity ==
  /\ InitFiles({NoFile}, InitDests)
  /\ manifestFile = NoManifestFile
  /\ call = [c \in Callers |-> IdleCall]
  /\ ret = NoRet
  /\ manifestDirExists = TRUE
  /\ UpdaterAtRest

StepIntegrity(c) ==
  \/ \E resume \in BOOLEAN : WithinBounds /\ DownloadCall(c, Url1, resume)
  \/ StatTemp(c)
  \/ ConnectFail(c)
  \/ GoodRespond(c)
  \/ BadRespond(c)
  \/ Open(c)
  \/ \E k \in 0..ChunkMax, through \in Throughs : IterChunk(c, k, through)
  \/ StreamFail(c)
  \/ EndStream(c)
  \/ Finish(c)

NextIntegrity == StepIntegrity(Main)

SpecIntegrity == InitIntegrity /\ [][NextIntegrity]_vars

\* C23: published file integrity across retries. Starting with no
\* temporary file, whenever a call of download_url has returned, the file
\* at the destination is the resource byte for byte: it is not longer than
\* the resource and holds no range of it twice (stated for the calls whose
\* stream delivered the whole body).
C23_PublishedFileIsResource ==
  (Ended /\ ret.kind = "ok" /\ BodyDelivered(ret.info))
  => /\ Exists(ret.path)
     /\ StatSize(ret.path) <= ResLen
     /\ Content(ret.path) = Resource

(* ----------------- resolve while the manifest is updated -------------- *)

\* The local manifest is a valid document, its directory exists, and no
\* update or call has begun.
InitUpdateRead ==
  /\ InitFiles({NoFile}, {NoFile})
  /\ dirExists = FALSE
  /\ call = [c \in Callers |-> IdleCall]
  /\ ret = NoRet
  /\ manifestFile = ManifestFileOf(JsonText(OldManifest))
  /\ manifestDirExists = TRUE
  /\ UpdaterAtRest

\* load_manifest in one process, whose remote request raises, between the
\* file operations of the updater in another.
NextUpdateRead ==
  \/ \E url \in UpdUrls, verify \in BOOLEAN, h \in HeadResponses :
       UpdateCall(url, verify, h)
  \/ UpdLoad
  \/ \E data \in ScrapedData : ScriptMain(data)
  \/ UpdBackup
  \/ UpdOpen
  \/ UpdFlush
  \/ Tick
  \/ LoadManifest(Main, RemoteError)
  \/ ReadLocal(Main)

SpecUpdateRead == InitUpdateRead /\ [][NextUpdateRead]_vars

\* C24: started on a valid local manifest, a load_manifest whose remote
\* fetch fails returns a manifest whatever the updater is doing: it never
\* raises for a missing or unparsable local file.
C24_ResolveSucceedsDuringUpdate ==
  (ret.op = "load_manifest") => ret.kind = "ok"

\* C25: a backup file, once made, keeps its content or the same content is
\* in another backup: no step of an update replaces the version an earlier
\* update saved, in whatever second it runs.
C25_EarlierBackupIsKept ==
  [][\A t \in Stamps :
       backups[t].exists => \E t2 \in Stamps : backups'[t2] = backups[t]]_vars

\* C26: while a call streams the body, the progress bar's count is the
\* number of bytes in the temporary file (those that the file object still
\* holds in its buffer counted in), and it is at most the total when the
\* total is known.
C26_ProgressIsTempSize ==
  (call[Main].pc = "stream")
  => /\ call[Main].n = StatSize(TempPath(call[Main].dest)) + Len(call[Main].buf)
     /\ call[Main].total # NoTotal => call[Main].n <= call[Main].total

=============================================================================
